---------------------------- MODULE Spec2Model ----------------------------
(***************************************************************************)
(* Scripts/mcp_oauth_test_server.py: a loopback HTTP server that answers   *)
(* POST /mcp with an OAuth challenge (401) and serves the protected        *)
(* resource metadata document (200).                                       *)
(*                                                                         *)
(* Two specifications:                                                     *)
(*   Spec         the life of up to two server processes started on one    *)
(*                host (main, lines 51-60), the kernel's listen queues and *)
(*                the clients that send requests to them;                  *)
(*   SpecRouting  the request handler as a function of the bound port and  *)
(*                the request (TodoistStyleHandler, lines 17-48).          *)
(***************************************************************************)
EXTENDS Integers, Sequences, FiniteSets, TLC

VARIABLES
    argv,            \* sys.argv of each process
    pc,              \* where each process is in main()
    port,            \* main's local variable `port`
    server_address,  \* server.server_address[1]: the port the socket is bound to
    listening,       \* the listening socket of the process is open
    stderr,          \* lines the process wrote to standard error
    exitcode,        \* exit status of the process, None until it ends
    sigs,            \* the places in main() where the process got a SIGINT
    backlog,         \* connections queued by the kernel on the listening socket
    handling,        \* requests whose handler is running in the process
    accepted,        \* requests in the order the process accepted them
    wire,            \* every request a client sent: [to |-> port, req |-> request]
    replies,         \* every response written, in order: [id, by, port, open, resp]
    probe            \* SpecRouting: one application of the handler

vars == <<argv, pc, port, server_address, listening, stderr, exitcode, sigs,
          backlog, handling, accepted, wire, replies, probe>>

----------------------------------------------------------------------------
(* Bounds of the model *)

\* requests the clients send in one behaviour of Spec
MaxRequests == 2
\* SIGINTs delivered to one process
MaxInterrupts == 1

Procs == {1, 2}

\* Python's None, for a port or an exit status that is not set yet
None == -1

\* a header the response does not carry
Absent == "(absent)"


----------------------------------------------------------------------------
(* Text: str(int), int(str), str.startswith *)

Digits == <<"0", "1", "2", "3", "4", "5", "6", "7", "8", "9">>

\* the character at position k of s
CharAt(s, k) == SubSeq(s, k, k)

\* str(n) for n >= 0: the decimal digits of n, most significant first
RECURSIVE str(_)
str(n) == IF n < 10 THEN Digits[n + 1]
          ELSE str(n \div 10) \o Digits[(n % 10) + 1]

IsDigit(c) == \E d \in 1..10 : Digits[d] = c

DigitValue(c) == (CHOOSE d \in 1..10 : Digits[d] = c) - 1

\* the texts int() takes here: a non-empty run of decimal digits
\* (anything else in the inputs below makes int() raise ValueError)
IsDecimal(s) == Len(s) > 0 /\ \A k \in 1..Len(s) : IsDigit(CharAt(s, k))

\* int(s) for a decimal text
RECURSIVE int(_)
int(s) == IF Len(s) = 1 THEN DigitValue(s)
          ELSE 10 * int(SubSeq(s, 1, Len(s) - 1)) + DigitValue(CharAt(s, Len(s)))

\* s.startswith(prefix)
startswith(s, prefix) ==
    Len(s) >= Len(prefix) /\ SubSeq(s, 1, Len(prefix)) = prefix

----------------------------------------------------------------------------
(* The handler *)

DEFAULT_PORT == 8765

resource_metadata(p) ==
    "http://127.0.0.1:" \o str(p) \o "/.well-known/oauth-protected-resource/mcp"

\* a response: the status of send_response, the headers of send_header in
\* the order sent, the bytes written to wfile.  (send_response also adds the
\* base class's Server and Date headers, which no claim is about.)
Response(status, headers, body) ==
    [status |-> status, headers |-> headers, body |-> body]

\* the value of header `name` of response r, Absent when it was not sent
Header(r, name) ==
    IF \E k \in 1..Len(r.headers) : r.headers[k][1] = name
    THEN r.headers[CHOOSE k \in 1..Len(r.headers) : r.headers[k][1] = name][2]
    ELSE Absent

ErrorBody ==
    "{\"jsonrpc\":\"2.0\",\"id\":null,\"error\":{\"code\":-32600,\"message\":\"Missing or invalid OAuth authorization\"}}"

\* mutant: only the exact path /mcp is challenged
do_POST_exact(p, req) ==
    IF req.path = "/mcp"
    THEN Response(401,
           << <<"Content-Type", "application/json; charset=utf-8">>,
              <<"WWW-Authenticate",
                "Bearer realm=\"mcp-server\", resource_metadata=\""
                    \o resource_metadata(p) \o "\"">> >>,
           ErrorBody)
    ELSE Response(404, << >>, "")

\* mutant: every path that begins with /mcp is challenged
do_POST_prefix(p, req) ==
    IF startswith(req.path, "/mcp")
    THEN Response(401,
           << <<"Content-Type", "application/json; charset=utf-8">>,
              <<"WWW-Authenticate",
                "Bearer realm=\"mcp-server\", resource_metadata=\""
                    \o resource_metadata(p) \o "\"">> >>,
           ErrorBody)
    ELSE Response(404, << >>, "")

\* mutant: a request that carries a bearer token is let through
do_POST_auth(p, req) ==
    IF req.path = "/mcp" \/ startswith(req.path, "/mcp/")
    THEN IF startswith(req.authorization, "Bearer ")
         THEN Response(200, << <<"Content-Type", "application/json">> >>, "{}")
         ELSE Response(401,
                << <<"Content-Type", "application/json; charset=utf-8">>,
                   <<"WWW-Authenticate",
                     "Bearer realm=\"mcp-server\", resource_metadata=\""
                         \o resource_metadata(p) \o "\"">> >>,
                ErrorBody)
    ELSE Response(404, << >>, "")

\* TodoistStyleHandler.do_POST; p is self.server.server_address[1]
do_POST(p, req) ==
    IF req.path = "/mcp" \/ startswith(req.path, "/mcp/")
    THEN Response(401,
           << <<"Content-Type", "application/json; charset=utf-8">>,
              <<"WWW-Authenticate",
                "Bearer realm=\"mcp-server\", resource_metadata=\""
                    \o resource_metadata(p) \o "\"">> >>,
           ErrorBody)
    ELSE Response(404, << >>, "")

\* mutant: the metadata document names the default port
do_GET_default_port(p, req) ==
    IF \/ req.path = "/.well-known/oauth-protected-resource/mcp"
       \/ req.path = "/.well-known/oauth-protected-resource"
    THEN Response(200,
           << <<"Content-Type", "application/json">> >>,
           "{\"resource\":\"http://127.0.0.1:" \o str(DEFAULT_PORT)
               \o "/mcp\",\"authorization_servers\":[{\"issuer\":\"https://auth.example.com\"}]}")
    ELSE Response(404, << >>, "")

\* TodoistStyleHandler.do_GET; p is self.server.server_address[1]
do_GET(p, req) ==
    IF \/ req.path = "/.well-known/oauth-protected-resource/mcp"
       \/ req.path = "/.well-known/oauth-protected-resource"
    THEN Response(200,
           << <<"Content-Type", "application/json">> >>,
           "{\"resource\":\"http://127.0.0.1:" \o str(p)
               \o "/mcp\",\"authorization_servers\":[{\"issuer\":\"https://auth.example.com\"}]}")
    ELSE Response(404, << >>, "")

\* the base class's answer to a method the handler class has no do_<METHOD>
\* for: send_error(501, "Unsupported method (...)"); a HEAD gets no body
send_error_501(req) ==
    Response(501,
      << <<"Content-Type", "text/html;charset=utf-8">>,
         <<"Connection", "close">> >>,
      IF req.command = "HEAD" THEN ""
      ELSE "Unsupported method ('" \o req.command \o "')")

\* mutant: a method without a handler is answered like an unknown path
handle_one_request_404(p, req) ==
    IF req.command = "POST" THEN do_POST(p, req)
    ELSE IF req.command = "GET" THEN do_GET(p, req)
    ELSE Response(404, << >>, "")

\* TodoistStyleHandler as BaseHTTPRequestHandler dispatches to it: the class
\* defines do_POST and do_GET and nothing else
handle_one_request(p, req) ==
    IF req.command = "POST" THEN do_POST(p, req)
    ELSE IF req.command = "GET" THEN do_GET(p, req)
    ELSE send_error_501(req)

----------------------------------------------------------------------------
(* Requests *)

Request(command, path, authorization, body) ==
    [command |-> command, path |-> path,
     authorization |-> authorization, body |-> body]

WellKnown == "/.well-known/oauth-protected-resource"

\* the requests the clients of Spec send
SomeRequests ==
    { Request("POST", "/mcp", "", ""),
      Request("POST", "/mcp", "Bearer tok", "{\"jsonrpc\":\"2.0\"}"),
      Request("GET", WellKnown \o "/mcp", "", "") }

----------------------------------------------------------------------------
(* main() *)

\* the command lines the processes are started with
ArgvChoices ==
    { <<"mcp_oauth_test_server.py">>,
      <<"mcp_oauth_test_server.py", "9999">>,
      <<"mcp_oauth_test_server.py", "0">>,
      <<"mcp_oauth_test_server.py", "mcp">> }

\* the ports the kernel hands out for a bind to port 0
EphemeralPorts == {32768, 32769}

\* mutant: the banner is printed before the socket is bound
next_pc_banner_first(at) ==
    CASE at = "start"   -> "banner1"
      [] at = "banner1" -> "banner2"
      [] at = "banner2" -> "bind"
      [] at = "bind"    -> "serve"
      [] at = "serve"   -> "close"
      [] at = "close"   -> "exited"

\* the statements of main() in program order: line 52 (start), 53 (bind),
\* 54 (banner1), 55 (banner2), 56-59 (serve), 60 (close), return (exited)
next_pc(at) ==
    CASE at = "start"   -> "bind"
      [] at = "bind"    -> "banner1"
      [] at = "banner1" -> "banner2"
      [] at = "banner2" -> "serve"
      [] at = "serve"   -> "close"
      [] at = "close"   -> "exited"

\* mutant: serve_forever() is called outside any try
catches_nothing(at) == FALSE

\* the statements of main() inside `try: ... except KeyboardInterrupt: pass`
catches_KeyboardInterrupt(at) == at = "serve"

\* some process has an open listening socket bound to port p
PortInUse(p) == \E i \in Procs : listening[i] /\ server_address[i] = p

\* mutant: the bind succeeds on a port that is already listened on
BindFails_never(p) == FALSE

\* HTTPServer((127.0.0.1, p), ...) raises OSError (address already in use)
BindFails(p) == PortInUse(p)

\* mutant: a request is accepted while another is being handled
CanAccept_threaded(i) == TRUE

\* serve_forever() of the plain HTTPServer handles a request inside the
\* loop: it takes the next connection only when no handler is running
CanAccept(i) == handling[i] = {}

\* the per-process state after process i ends with an uncaught exception:
\* the traceback's last line on stderr, the socket closed by the kernel
Crash(i, line, code) ==
    /\ pc' = [pc EXCEPT ![i] = "exited"]
    /\ stderr' = [stderr EXCEPT ![i] = Append(@, line)]
    /\ exitcode' = [exitcode EXCEPT ![i] = code]
    /\ listening' = [listening EXCEPT ![i] = FALSE]
    /\ backlog' = [backlog EXCEPT ![i] = << >>]
    /\ handling' = [handling EXCEPT ![i] = {}]

\* line 52: port = int(sys.argv[1]) if len(sys.argv) > 1 else DEFAULT_PORT
ParsePort(i) ==
    /\ pc[i] = "start"
    /\ IF Len(argv[i]) > 1 /\ ~IsDecimal(argv[i][2])
       THEN /\ Crash(i, "ValueError: invalid literal for int() with base 10", 1)
            /\ UNCHANGED port
       ELSE /\ port' = [port EXCEPT ![i] = IF Len(argv[i]) > 1
                                           THEN int(argv[i][2])
                                           ELSE DEFAULT_PORT]
            /\ pc' = [pc EXCEPT ![i] = next_pc("start")]
            /\ UNCHANGED <<stderr, exitcode, listening, backlog, handling>>
    /\ UNCHANGED <<argv, server_address, sigs, accepted, wire, replies, probe>>

\* line 53: server = HTTPServer(("127.0.0.1", port), TodoistStyleHandler):
\* bind and listen; port 0 asks the kernel for a free port, and
\* server_address is what the socket is then bound to
Bind(i) ==
    /\ pc[i] = "bind"
    /\ IF port[i] # 0 /\ BindFails(port[i])
       THEN /\ Crash(i, "OSError: [Errno 98] Address already in use", 1)
            /\ UNCHANGED server_address
       ELSE /\ \E p \in (IF port[i] = 0 THEN EphemeralPorts ELSE {port[i]}) :
                 /\ port[i] = 0 => ~PortInUse(p)
                 /\ server_address' = [server_address EXCEPT ![i] = p]
            /\ listening' = [listening EXCEPT ![i] = TRUE]
            /\ pc' = [pc EXCEPT ![i] = next_pc("bind")]
            /\ UNCHANGED <<stderr, exitcode, backlog, handling>>
    /\ UNCHANGED <<argv, port, sigs, accepted, wire, replies, probe>>

\* line 54: the first banner line
Banner1(i) ==
    /\ pc[i] = "banner1"
    /\ stderr' = [stderr EXCEPT ![i] = Append(@,
           "Todoist-style MCP OAuth test server on http://127.0.0.1:"
               \o str(port[i]))]
    /\ pc' = [pc EXCEPT ![i] = next_pc("banner1")]
    /\ UNCHANGED <<argv, port, server_address, listening, exitcode, sigs,
                   backlog, handling, accepted, wire, replies, probe>>

\* line 55: the second banner line
Banner2(i) ==
    /\ pc[i] = "banner2"
    /\ stderr' = [stderr EXCEPT ![i] = Append(@,
           "POST /mcp -> 401 WWW-Authenticate resource_metadata="
               \o resource_metadata(port[i]))]
    /\ pc' = [pc EXCEPT ![i] = next_pc("banner2")]
    /\ UNCHANGED <<argv, port, server_address, listening, exitcode, sigs,
                   backlog, handling, accepted, wire, replies, probe>>

\* line 57, serve_forever(): accept the next queued connection
Accept(i) ==
    /\ pc[i] = "serve"
    /\ listening[i]
    /\ CanAccept(i)
    /\ backlog[i] # << >>
    /\ handling' = [handling EXCEPT ![i] = @ \cup {Head(backlog[i])}]
    /\ accepted' = [accepted EXCEPT ![i] = Append(@, Head(backlog[i]))]
    /\ backlog' = [backlog EXCEPT ![i] = Tail(@)]
    /\ UNCHANGED <<argv, pc, port, server_address, listening, stderr,
                   exitcode, sigs, wire, replies, probe>>

\* line 57, serve_forever(): the handler of an accepted request runs to its
\* end: the response is written and the connection is closed
Handle(i, id) ==
    /\ pc[i] = "serve"
    /\ id \in handling[i]
    /\ replies' = Append(replies,
           [id |-> id, by |-> i, port |-> server_address[i],
            open |-> listening[i],
            resp |-> handle_one_request(server_address[i], wire[id].req)])
    /\ handling' = [handling EXCEPT ![i] = @ \ {id}]
    /\ UNCHANGED <<argv, pc, port, server_address, listening, stderr,
                   exitcode, sigs, backlog, accepted, wire, probe>>

\* SIGINT: Python raises KeyboardInterrupt in the main thread, wherever it is.
\* Inside the try the loop ends (the request being handled is dropped) and
\* main goes on to line 60; anywhere else the exception is uncaught and the
\* process dies of the signal (status 130)
Interrupt(i) ==
    /\ pc[i] # "exited"
    /\ Len(sigs[i]) < MaxInterrupts
    /\ sigs' = [sigs EXCEPT ![i] = Append(@, pc[i])]
    /\ IF catches_KeyboardInterrupt(pc[i])
       THEN /\ pc' = [pc EXCEPT ![i] = next_pc("serve")]
            /\ handling' = [handling EXCEPT ![i] = {}]
            /\ UNCHANGED <<stderr, exitcode, listening, backlog>>
       ELSE Crash(i, "KeyboardInterrupt", 130)
    /\ UNCHANGED <<argv, port, server_address, accepted, wire, replies, probe>>

\* line 60: server.server_close(), then main returns and the process ends
ServerClose(i) ==
    /\ pc[i] = "close"
    /\ listening' = [listening EXCEPT ![i] = FALSE]
    /\ backlog' = [backlog EXCEPT ![i] = << >>]
    /\ pc' = [pc EXCEPT ![i] = next_pc("close")]
    /\ exitcode' = [exitcode EXCEPT ![i] = 0]
    /\ UNCHANGED <<argv, port, server_address, stderr, sigs, handling,
                   accepted, wire, replies, probe>>

\* a client connects to the port process i listens on and sends request r;
\* the kernel queues the connection until the process accepts it
ClientSend(i, r) ==
    /\ Len(wire) < MaxRequests
    /\ listening[i]
    /\ wire' = Append(wire, [to |-> server_address[i], req |-> r])
    /\ backlog' = [backlog EXCEPT ![i] = Append(@, Len(wire) + 1)]
    /\ UNCHANGED <<argv, pc, port, server_address, listening, stderr,
                   exitcode, sigs, handling, accepted, replies, probe>>

\* no response yet
NoResponse == [status |-> 0, headers |-> << >>, body |-> ""]

NoProbe ==
    [port |-> 0, req |-> [command |-> "", path |-> "", authorization |-> "",
                          body |-> ""],
     answered |-> FALSE, resp |-> NoResponse]

Init ==
    /\ argv \in [Procs -> ArgvChoices]
    /\ pc = [i \in Procs |-> "start"]
    /\ port = [i \in Procs |-> None]
    /\ server_address = [i \in Procs |-> None]
    /\ listening = [i \in Procs |-> FALSE]
    /\ stderr = [i \in Procs |-> << >>]
    /\ exitcode = [i \in Procs |-> None]
    /\ sigs = [i \in Procs |-> << >>]
    /\ backlog = [i \in Procs |-> << >>]
    /\ handling = [i \in Procs |-> {}]
    /\ accepted = [i \in Procs |-> << >>]
    /\ wire = << >>
    /\ replies = << >>
    /\ probe = NoProbe

Next ==
    \/ \E i \in Procs : ParsePort(i)
    \/ \E i \in Procs : Bind(i)
    \/ \E i \in Procs : Banner1(i)
    \/ \E i \in Procs : Banner2(i)
    \/ \E i \in Procs : Accept(i)
    \/ \E i \in Procs : \E id \in 1..MaxRequests : Handle(i, id)
    \/ \E i \in Procs : Interrupt(i)
    \/ \E i \in Procs : ServerClose(i)
    \/ \E i \in Procs : \E r \in SomeRequests : ClientSend(i, r)

Spec == Init /\ [][Next]_vars

----------------------------------------------------------------------------
(* The handler applied to one request *)

AllCommands == {"GET", "POST", "PUT", "DELETE", "HEAD", "OPTIONS"}

AllPaths ==
    { "/mcp", "/mcp/", "/mcp/x", "/mcp/v1/tools", "/mcpx", "/mcp?x=1", "/mc",
      WellKnown \o "/mcp", WellKnown, WellKnown \o "/", WellKnown \o "/mcp/",
      "/foo", "/bar", "/" }

AllRequests ==
    { Request(c, path, a, b) :
        c \in AllCommands, path \in AllPaths,
        a \in {"", "Bearer tok"}, b \in {"", "{\"jsonrpc\":\"2.0\"}"} }

\* ports a server of the routing specification is bound to
RoutingPorts == {80, 8765, 9999, 32768}

InitRouting ==
    /\ argv = [i \in Procs |-> <<"mcp_oauth_test_server.py">>]
    /\ pc = [i \in Procs |-> "start"]
    /\ port = [i \in Procs |-> None]
    /\ server_address = [i \in Procs |-> None]
    /\ listening = [i \in Procs |-> FALSE]
    /\ stderr = [i \in Procs |-> << >>]
    /\ exitcode = [i \in Procs |-> None]
    /\ sigs = [i \in Procs |-> << >>]
    /\ backlog = [i \in Procs |-> << >>]
    /\ handling = [i \in Procs |-> {}]
    /\ accepted = [i \in Procs |-> << >>]
    /\ wire = << >>
    /\ replies = << >>
    /\ probe \in [port : RoutingPorts, req : AllRequests,
                  answered : {FALSE}, resp : {NoResponse}]

\* the handler answers the request
Route ==
    /\ ~probe.answered
    /\ probe' = [probe EXCEPT
                   !.answered = TRUE,
                   !.resp = handle_one_request(probe.port, probe.req)]
    /\ UNCHANGED <<argv, pc, port, server_address, listening, stderr, exitcode,
                   sigs, backlog, handling, accepted, wire, replies>>

NextRouting == Route

SpecRouting == InitRouting /\ [][NextRouting]_vars

----------------------------------------------------------------------------
(* Claims about the handler, checked under SpecRouting *)

\* the paths of AllPaths that are /mcp or lie under /mcp/
McpPaths == {"/mcp", "/mcp/", "/mcp/x", "/mcp/v1/tools"}

\* the two paths of the metadata document
MetadataPaths ==
    {"/.well-known/oauth-protected-resource/mcp",
     "/.well-known/oauth-protected-resource"}

\* C1: a POST to /mcp or to a path under /mcp/ is answered 401 with the
\* challenge header naming the metadata URL of the bound port, the JSON
\* content type and the fixed JSON-RPC error body
C1_PostMcpChallenged ==
    (probe.answered /\ probe.req.command = "POST" /\ probe.req.path \in McpPaths)
    => /\ probe.resp.status = 401
       /\ Header(probe.resp, "WWW-Authenticate")
            = "Bearer realm=\"mcp-server\", resource_metadata=\"http://127.0.0.1:"
                \o ToString(probe.port)
                \o "/.well-known/oauth-protected-resource/mcp\""
       /\ probe.port = 9999 =>
            Header(probe.resp, "WWW-Authenticate")
              = "Bearer realm=\"mcp-server\", resource_metadata=\"http://127.0.0.1:9999/.well-known/oauth-protected-resource/mcp\""
       /\ Header(probe.resp, "Content-Type") = "application/json; charset=utf-8"
       /\ Len(probe.resp.headers) = 2
       /\ probe.resp.body
            = "{\"jsonrpc\":\"2.0\",\"id\":null,\"error\":{\"code\":-32600,\"message\":\"Missing or invalid OAuth authorization\"}}"

\* C1 witness: a POST to a path under /mcp/ on port 9999 got the challenge
C1_Witness ==
    /\ probe.answered
    /\ probe.port = 9999
    /\ probe.req.command = "POST"
    /\ probe.req.path = "/mcp/v1/tools"
    /\ probe.resp.status = 401

\* C2: a GET of either metadata path is answered 200, application/json, with
\* the metadata document whose resource is http://127.0.0.1:<port>/mcp
C2_GetMetadata ==
    (probe.answered /\ probe.req.command = "GET"
        /\ probe.req.path \in MetadataPaths)
    => /\ probe.resp.status = 200
       /\ Header(probe.resp, "Content-Type") = "application/json"
       /\ Len(probe.resp.headers) = 1
       /\ probe.resp.body
            = "{\"resource\":\"http://127.0.0.1:" \o ToString(probe.port)
                \o "/mcp\",\"authorization_servers\":[{\"issuer\":\"https://auth.example.com\"}]}"

\* C2 witness: the path without the trailing segment, on a port other than
\* the default, got the document
C2_Witness ==
    /\ probe.answered
    /\ probe.port = 32768
    /\ probe.req.command = "GET"
    /\ probe.req.path = "/.well-known/oauth-protected-resource"
    /\ probe.resp.status = 200

\* C3: every other GET and every other POST is answered 404 with no body
C3_OtherPaths404 ==
    (/\ probe.answered
     /\ \/ probe.req.command = "GET" /\ probe.req.path \notin MetadataPaths
        \/ probe.req.command = "POST" /\ probe.req.path \notin McpPaths)
    => /\ probe.resp.status = 404
       /\ probe.resp.body = ""
       /\ probe.resp.headers = << >>

\* C3 witness: a near-miss path got the 404
C3_Witness ==
    /\ probe.answered
    /\ probe.req.command = "POST"
    /\ probe.req.path = "/mcpx"
    /\ probe.resp.status = 404

\* C4 as claimed: a request with a method other than GET or POST is
\* answered 404
C4_OtherMethods404 ==
    (probe.answered /\ probe.req.command \notin {"GET", "POST"})
    => probe.resp.status = 404

\* C4 amended: a request with a method other than GET or POST, on any path,
\* reaches neither handler and is answered 501 by the base class
C4_OtherMethods501 ==
    (probe.answered /\ probe.req.command \notin {"GET", "POST"})
    => /\ probe.resp.status = 501
       /\ Header(probe.resp, "WWW-Authenticate") = Absent
       /\ probe.resp.body # ErrorBody

\* C4 witness: a PUT to /mcp got the 501
C4_Witness ==
    /\ probe.answered
    /\ probe.req.command = "PUT"
    /\ probe.req.path = "/mcp"
    /\ probe.resp.status = 501

----------------------------------------------------------------------------
(* Claims about the processes, checked under Spec *)

\* the ids of the requests process i has answered, in the order answered
RepliedBy(i) ==
    LET mine == SelectSeq(replies, LAMBDA r : r.by = i)
    IN  [k \in 1..Len(mine) |-> mine[k].id]

\* process i died of the bind error of line 53
BindFailed(i) ==
    \E k \in 1..Len(stderr[i]) :
        stderr[i][k] = "OSError: [Errno 98] Address already in use"

\* process i has written a banner line
HasBanner(i) ==
    \E k \in 1..Len(stderr[i]) :
        \/ startswith(stderr[i][k], "Todoist-style MCP OAuth test server")
        \/ startswith(stderr[i][k], "POST /mcp -> 401")

\* C5: no two processes listen on one port; a process whose bind found the
\* port in use has ended with status 1 without a socket, has accepted and
\* answered nothing, and the step in which it failed changed nothing of any
\* other process
C5_SecondInstanceFails ==
    /\ [](\A i, j \in Procs :
            (i # j /\ listening[i] /\ listening[j])
            => server_address[i] # server_address[j])
    /\ [](\A j \in Procs :
            BindFailed(j)
            => /\ pc[j] = "exited"
               /\ exitcode[j] = 1
               /\ ~listening[j]
               /\ server_address[j] = None
               /\ accepted[j] = << >>
               /\ handling[j] = {}
               /\ \A k \in 1..Len(replies) : replies[k].by # j)
    /\ [][\A j \in Procs :
            (~BindFailed(j) /\ BindFailed(j)')
            => \A i \in Procs \ {j} :
                 /\ pc'[i] = pc[i]
                 /\ listening'[i] = listening[i]
                 /\ server_address'[i] = server_address[i]
                 /\ backlog'[i] = backlog[i]
                 /\ handling'[i] = handling[i]
                 /\ accepted'[i] = accepted[i]
                 /\ exitcode'[i] = exitcode[i]]_vars

\* C5 witness: the second instance failed on the port the first listens on,
\* and the first is handling a request
C5_Witness ==
    \E i, j \in Procs :
        /\ i # j
        /\ BindFailed(j)
        /\ port[j] = server_address[i]
        /\ listening[i]
        /\ handling[i] # {}

ArgPort(i) ==
    IF Len(argv[i]) = 1 THEN 8765
    ELSE IF argv[i][2] = "9999" THEN 9999
    ELSE IF argv[i][2] = "0" THEN 0
    ELSE None

\* C7 as claimed: the port in the challenge header and in the metadata
\* document of every response is the port of the command line (or 8765),
\* and is the port the banner announces
C7_OnePortEverywhere ==
    /\ \A k \in 1..Len(replies) :
         LET r == replies[k].resp
             P == ToString(ArgPort(replies[k].by))
         IN  /\ r.status = 401 =>
                  Header(r, "WWW-Authenticate")
                    = "Bearer realm=\"mcp-server\", resource_metadata=\"http://127.0.0.1:"
                        \o P \o "/.well-known/oauth-protected-resource/mcp\""
             /\ r.status = 200 =>
                  r.body = "{\"resource\":\"http://127.0.0.1:" \o P
                        \o "/mcp\",\"authorization_servers\":[{\"issuer\":\"https://auth.example.com\"}]}"
             /\ stderr[replies[k].by][1]
                  = "Todoist-style MCP OAuth test server on http://127.0.0.1:" \o P
    /\ \A i \in Procs :
         HasBanner(i) =>
            stderr[i][1] = "Todoist-style MCP OAuth test server on http://127.0.0.1:"
                              \o ToString(ArgPort(i))

\* C8: at most one handler runs in a process, the requests a process has
\* answered are the first ones it accepted, in that order, and all but the
\* last accepted request have been answered
C8_OneRequestAtATime ==
    \A i \in Procs :
        /\ Cardinality(handling[i]) <= 1
        /\ Len(RepliedBy(i)) <= Len(accepted[i])
        /\ \A k \in 1..Len(RepliedBy(i)) : RepliedBy(i)[k] = accepted[i][k]
        /\ Len(accepted[i]) <= Len(RepliedBy(i)) + 1
        /\ handling[i] # {} => handling[i] = {accepted[i][Len(accepted[i])]}

\* C8 witness: a request waits in the queue while another is being handled
C8_Witness ==
    \E i \in Procs :
        /\ handling[i] # {}
        /\ backlog[i] # << >>

\* C9: two responses of servers on one port to requests with the same method
\* and path are equal, whatever was answered before and whatever headers and
\* body the requests carry; a POST to /mcp is never answered 2xx
C9_StatelessDeterministic ==
    /\ \A k, l \in 1..Len(replies) :
         (/\ replies[k].port = replies[l].port
          /\ wire[replies[k].id].req.command = wire[replies[l].id].req.command
          /\ wire[replies[k].id].req.path = wire[replies[l].id].req.path)
         => replies[k].resp = replies[l].resp
    /\ \A k \in 1..Len(replies) :
         (/\ wire[replies[k].id].req.command = "POST"
          /\ wire[replies[k].id].req.path = "/mcp")
         => replies[k].resp.status \notin 200..299

\* C9 witness: a POST to /mcp with a bearer token and a body was answered
\* after one without, with the same response
C9_Witness ==
    \E k, l \in 1..Len(replies) :
        /\ k < l
        /\ replies[k].port = replies[l].port
        /\ wire[replies[k].id].req.command = "POST"
        /\ wire[replies[l].id].req.command = "POST"
        /\ wire[replies[k].id].req.authorization = ""
        /\ wire[replies[l].id].req.authorization = "Bearer tok"
        /\ replies[k].resp = replies[l].resp
        /\ replies[l].resp.status = 401

\* C10: a banner line is on stderr only after the bind has succeeded, both
\* lines are there before the first request is accepted, nothing is written
\* before the bind, and a process whose bind failed has no banner
C10_BindBeforeBanner ==
    \A i \in Procs :
        /\ HasBanner(i) => server_address[i] # None
        /\ pc[i] \in {"start", "bind"} => stderr[i] = << >>
        /\ BindFailed(i) => ~HasBanner(i)
        /\ accepted[i] # << >> =>
             /\ Len(stderr[i]) >= 2
             /\ startswith(stderr[i][1], "Todoist-style MCP OAuth test server")
             /\ startswith(stderr[i][2], "POST /mcp -> 401")

\* C10 witness: one process has accepted a request with its banner written,
\* another failed to bind and wrote none
C10_Witness ==
    \E i, j \in Procs :
        /\ accepted[i] # << >>
        /\ Len(stderr[i]) = 2
        /\ BindFailed(j)
        /\ stderr[j] = <<"OSError: [Errno 98] Address already in use">>

=============================================================================
